---- MODULE Spec2Model ----
(***************************************************************************)
(* The test registry of lisa/core/testFactory.py: TestFactory with its     *)
(* two dictionaries, the TestSuiteData and TestCaseData records, and the   *)
(* two registration calls add_class and add_method.                        *)
(*                                                                         *)
(* Strings are sequences of one-character strings, so that lower(),        *)
(* startswith() and split(".") are computed as Python computes them.       *)
(* Objects live in two heaps (suiteObj, caseObj) and the dictionaries hold *)
(* object ids, so that "the same record" is a statement about ids.         *)
(* The fields area, category, description, tags and priority are stored    *)
(* and never read by the registry; they are left out.                      *)
(***************************************************************************)
EXTENDS Naturals, Sequences, FiniteSets, TLC

\* The longest sequence of registration calls explored.
MaxCalls == 3

\* The number of calls the two threads of a host make between them.
MaxConcCalls == 3

(***************************************************************************)
(* Python values                                                           *)
(***************************************************************************)

\* Python's None where a string is expected (no character is "None").
None == <<"None">>

\* The unset TestCaseData.suite attribute (suite ids start at 1).
NoSuite == 0

\* The empty dict().
EmptyDict == [x \in {} |-> 0]

\* str.lower() on one character of the alphabet in use.
LowerChar(c) ==
    CASE c = "A" -> "a"
      [] c = "B" -> "b"
      [] c = "K" -> "k"
      [] c = "M" -> "m"
      [] OTHER -> c

\* str.lower()
Lower(s) == [i \in 1..Len(s) |-> LowerChar(s[i])]

\* str.startswith(prefix)
StartsWith(s, prefix) ==
    /\ Len(prefix) <= Len(s)
    /\ SubSeq(s, 1, Len(prefix)) = prefix

\* str.split(".")[0]: the text before the first dot, the whole string if none.
FirstSegment(s) ==
    LET dots == {i \in 1..Len(s) : s[i] = "."}
    IN  IF dots = {} THEN s
        ELSE SubSeq(s, 1, (CHOOSE i \in dots : \A j \in dots : i <= j) - 1)

(***************************************************************************)
(* The classes and methods the host may load.  A class has __name__ and    *)
(* __qualname__; a method's __qualname__ is its class's __qualname__, a    *)
(* dot, and its __name__.  owner is the defining class (not read by the    *)
(* registry; the properties use it).                                       *)
(***************************************************************************)
Class(name, qualname) == [name |-> name, qualname |-> qualname]

Method(cls, name) ==
    [name |-> name, qualname |-> cls.qualname \o <<".">> \o name, owner |-> cls]

ClsK == Class(<<"K">>, <<"K">>)
ClsB == Class(<<"B">>, <<"B">>)
\* class A nested in class K
ClsKA == Class(<<"A">>, <<"K", ".", "A">>)

Classes == {ClsK, ClsB, ClsKA}

Methods ==
    { Method(ClsK, <<"m">>), Method(ClsK, <<"M">>), Method(ClsK, <<"n">>),
      Method(ClsB, <<"m">>), Method(ClsKA, <<"m">>) }

\* The name argument of add_class: absent, empty, or an explicit name (one
\* of them with a dot in it).
Names == { None, <<>>, <<"B">>, <<"k">>, <<"K", ".", "A">> }

(***************************************************************************)
(* Records                                                                 *)
(***************************************************************************)

\* TestCaseData.__init__
TestCaseData(method, name) ==
    LET nm == IF name # None /\ name # <<>> THEN name ELSE method.name
    IN  [ name      |-> nm,
          full_name |-> Lower(method.qualname),
          method    |-> method,
          suite     |-> NoSuite,
          key       |-> Lower(nm) ]

\* TestSuiteData.__init__
TestSuiteData(test_class, name) ==
    LET nm == IF name # None /\ name # <<>> THEN name ELSE test_class.name
    IN  [ test_class |-> test_class,
          name       |-> nm,
          key        |-> Lower(nm),
          cases      |-> EmptyDict ]

(***************************************************************************)
(* The registry value: the two dictionaries of TestFactory and the heaps   *)
(* of the records they point to.  Case ids are given in insertion order,   *)
(* which is the order in which dict.values() yields them.                  *)
(***************************************************************************)
EmptyRegistry ==
    [ suites   |-> EmptyDict,      \* suite key -> suite id
      cases    |-> EmptyDict,      \* full_name -> case id
      suiteObj |-> <<>>,           \* suite id -> TestSuiteData
      caseObj  |-> <<>> ]          \* case id -> TestCaseData

\* A call that returns normally.
Returned(r) == [r |-> r, ok |-> TRUE, err |-> "none", errKey |-> <<>>]

\* A call that raises LisaException; r is the registry it leaves behind.
Raised(r, err, key) == [r |-> r, ok |-> FALSE, err |-> err, errKey |-> key]

\* Attaching a copy of the case instead of the case itself.
add_case_to_suite_copy(r, sid, cid) ==
    LET test_suite == r.suiteObj[sid]
        test_case  == r.caseObj[cid]
        copy       == Len(r.caseObj) + 1
    IN  IF test_case.key \notin DOMAIN test_suite.cases
        THEN Returned(
               [r EXCEPT !.suiteObj[sid].cases = @ @@ (test_case.key :> copy),
                         !.caseObj = Append(@, [test_case EXCEPT !.suite = sid])])
        ELSE Raised(r, "case_key", test_case.key)

\* add_case without its check: a second case under the key replaces the first.
add_case_to_suite_overwrite(r, sid, cid) ==
    LET test_case == r.caseObj[cid]
    IN  Returned(
          [r EXCEPT !.suiteObj[sid].cases =
                        [k \in DOMAIN @ \cup {test_case.key} |->
                            IF k = test_case.key THEN cid ELSE @[k]],
                    !.caseObj[cid].suite = sid])

\* TestSuiteData.add_case followed by the assignment of test_case.suite
add_case_to_suite(r, sid, cid) ==
    LET test_suite == r.suiteObj[sid]
        test_case  == r.caseObj[cid]
    IN  IF test_case.key \notin DOMAIN test_suite.cases
        THEN Returned(
               [r EXCEPT !.suiteObj[sid].cases = @ @@ (test_case.key :> cid),
                         !.caseObj[cid].suite = sid])
        ELSE Raised(r, "case_key", test_case.key)

\* The loop leaving after the first case it attaches.
scan_cases_stop_at_first(r, sid, class_prefix, i) ==
    LET found == {j \in i..Len(r.caseObj) :
                     StartsWith(r.caseObj[j].full_name, class_prefix)}
    IN  IF found = {} THEN Returned(r)
        ELSE add_case_to_suite(r, sid, CHOOSE j \in found : \A k \in found : j <= k)

\* The loop of add_class over self.cases.values(), from the i-th case on.
RECURSIVE scan_cases(_, _, _, _)
scan_cases(r, sid, class_prefix, i) ==
    IF i > Len(r.caseObj) THEN Returned(r)
    ELSE IF StartsWith(r.caseObj[i].full_name, class_prefix)
         THEN LET a == add_case_to_suite(r, sid, i)
              IN  IF a.ok THEN scan_cases(a.r, sid, class_prefix, i + 1) ELSE a
         ELSE scan_cases(r, sid, class_prefix, i + 1)

\* The key add_class looks up and stores under.
class_key(test_class, name) ==
    Lower(IF name # None THEN name ELSE test_class.name)

\* add_class without the loop over the cases registered before it.
add_class_no_scan(r, test_class, name) ==
    LET key == class_key(test_class, name)
    IN  IF key \in DOMAIN r.suites
        THEN Raised(r, "suite_key", key)
        ELSE Returned([r EXCEPT
                         !.suiteObj = Append(@, TestSuiteData(test_class, <<>>)),
                         !.suites = @ @@ (key :> Len(r.suiteObj) + 1)])

\* add_class without its check: a second suite under the key replaces the first.
add_class_overwrite(r, test_class, name) ==
    LET key == class_key(test_class, name)
        sid == Len(r.suiteObj) + 1
        r1  == [r EXCEPT
                  !.suiteObj = Append(@, TestSuiteData(test_class, <<>>)),
                  !.suites = [k \in DOMAIN @ \cup {key} |->
                                 IF k = key THEN sid ELSE @[k]]]
    IN  IF key \in DOMAIN r.suites
        THEN Raised(r1, "suite_key", key)
        ELSE scan_cases(r1, sid, key \o <<".">>, 1)

\* add_class scanning for the key without the dot that ends it.
add_class_prefix_without_dot(r, test_class, name) ==
    LET key == class_key(test_class, name)
    IN  IF key \in DOMAIN r.suites
        THEN Raised(r, "suite_key", key)
        ELSE LET sid == Len(r.suiteObj) + 1
                 r1  == [r EXCEPT
                           !.suiteObj = Append(@, TestSuiteData(test_class, <<>>)),
                           !.suites = @ @@ (key :> sid)]
             IN  scan_cases(r1, sid, key, 1)

\* TestFactory.add_class
add_class(r, test_class, name) ==
    LET key == class_key(test_class, name)
    IN  IF key \in DOMAIN r.suites
        THEN Raised(r, "suite_key", key)
        ELSE LET sid == Len(r.suiteObj) + 1
                 r1  == [r EXCEPT
                           !.suiteObj = Append(@, TestSuiteData(test_class, <<>>)),
                           !.suites = @ @@ (key :> sid)]
             IN  scan_cases(r1, sid, key \o <<".">>, 1)

\* add_method that stores the case and never looks for its suite.
add_method_no_attach(r, test_method) ==
    LET test_case == TestCaseData(test_method, <<>>)
        full_name == test_case.full_name
    IN  IF full_name \in DOMAIN r.cases
        THEN Raised(r, "full_name", full_name)
        ELSE Returned([r EXCEPT !.caseObj = Append(@, test_case),
                                !.cases = @ @@ (full_name :> Len(r.caseObj) + 1)])

\* add_method storing the new case before it checks for the qualified name.
add_method_overwrite(r, test_method) ==
    LET test_case == TestCaseData(test_method, <<>>)
        full_name == test_case.full_name
        cid == Len(r.caseObj) + 1
        r1  == [r EXCEPT !.caseObj = Append(@, test_case),
                         !.cases = [f \in DOMAIN @ \cup {full_name} |->
                                       IF f = full_name THEN cid ELSE @[f]]]
        class_name == FirstSegment(full_name)
    IN  IF full_name \in DOMAIN r.cases
        THEN Raised(r1, "full_name", full_name)
        ELSE IF class_name \in DOMAIN r1.suites
             THEN add_case_to_suite(r1, r1.suites[class_name], cid)
             ELSE Returned(r1)

\* TestFactory.add_method
add_method(r, test_method) ==
    LET test_case == TestCaseData(test_method, <<>>)
        full_name == test_case.full_name
    IN  IF full_name \in DOMAIN r.cases
        THEN Raised(r, "full_name", full_name)
        ELSE LET cid == Len(r.caseObj) + 1
                 r1  == [r EXCEPT !.caseObj = Append(@, test_case),
                                  !.cases = @ @@ (full_name :> cid)]
                 class_name == FirstSegment(full_name)
             IN  IF class_name \in DOMAIN r1.suites
                 THEN add_case_to_suite(r1, r1.suites[class_name], cid)
                 ELSE Returned(r1)

(***************************************************************************)
(* The two calls cut at the points where another thread can run between    *)
(* two accesses to the shared dictionaries.                                *)
(***************************************************************************)

\* Lines 79-89 finding the key taken and going on with the suite under it.
register_suite_reuse(r, test_class, name) ==
    LET key == class_key(test_class, name)
    IN  IF key \in DOMAIN r.suites
        THEN Returned(r)
        ELSE Returned([r EXCEPT
                         !.suiteObj = Append(@, TestSuiteData(test_class, <<>>)),
                         !.suites = @ @@ (key :> Len(r.suiteObj) + 1)])

\* add_class, lines 79-89: the key, the check on self.suites, the new suite.
register_suite(r, test_class, name) ==
    LET key == class_key(test_class, name)
    IN  IF key \in DOMAIN r.suites
        THEN Raised(r, "suite_key", key)
        ELSE Returned([r EXCEPT
                         !.suiteObj = Append(@, TestSuiteData(test_class, <<>>)),
                         !.suites = @ @@ (key :> Len(r.suiteObj) + 1)])

\* add_method, lines 103-109: the case, the check on self.cases, the insert.
register_case(r, test_method) ==
    LET test_case == TestCaseData(test_method, <<>>)
        full_name == test_case.full_name
    IN  IF full_name \in DOMAIN r.cases
        THEN Raised(r, "full_name", full_name)
        ELSE Returned([r EXCEPT !.caseObj = Append(@, test_case),
                                !.cases = @ @@ (full_name :> Len(r.caseObj) + 1)])

\* Lines 115-116 finding no suite, as the comment above them expects.
lookup_suite_none(r, full_name) == NoSuite

\* add_method, lines 115-116: self.suites.get(full_name.split(".")[0])
lookup_suite(r, full_name) ==
    LET class_name == FirstSegment(full_name)
    IN  IF class_name \in DOMAIN r.suites THEN r.suites[class_name] ELSE NoSuite

\* next() on the iterator of self.cases.values() made when the dictionary
\* had size entries, now at position pos: "changed" (RuntimeError: dictionary
\* changed size during iteration), "stop" (StopIteration) or "case".
next_case(r, size, pos) ==
    IF Cardinality(DOMAIN r.cases) # size THEN "changed"
    ELSE IF pos > size THEN "stop"
    ELSE "case"

(***************************************************************************)
(* The state machine: the host issues registration calls one at a time.    *)
(***************************************************************************)
VARIABLES
    suites,     \* TestFactory.suites
    cases,      \* TestFactory.cases
    suiteObj,   \* the TestSuiteData objects
    caseObj,    \* the TestCaseData objects
    hist,       \* the calls made so far and how each ended, in order
    last,       \* the last call and how it ended
    discovering, \* TRUE while the host is still loading test modules
    conc        \* the calls in progress when the host loads from two threads

vars == <<suites, cases, suiteObj, caseObj, hist, last, discovering, conc>>

\* The registry as one value.
Registry ==
    [suites |-> suites, cases |-> cases, suiteObj |-> suiteObj, caseObj |-> caseObj]

ClassCall(c, n) == [op |-> "add_class", test_class |-> c, name |-> n]
MethodCall(m) == [op |-> "add_method", test_method |-> m]

NoCall == [op |-> "none"]

\* One call applied to a registry value.
Apply(r, call) ==
    IF call.op = "add_class" THEN add_class(r, call.test_class, call.name)
    ELSE add_method(r, call.test_method)

\* The text of the LisaException each check raises, with the place of the
\* key it is formatted with.
LisaException(err) ==
    CASE err = "suite_key" -> "TestFactory duplicate test class name: {key}"
      [] err = "full_name" -> "duplicate test class name: {full_name}"
      [] err = "case_key" -> "TestSuiteData has test method {test_case.key} already"
      [] OTHER -> ""

\* What is remembered of a call: whether it returned, and if it raised,
\* which check raised, the message and the key the message is formatted with.
Outcome(call, res) ==
    [call |-> call, ok |-> res.ok, err |-> res.err, errKey |-> res.errKey,
     message |-> LisaException(res.err)]

Install(call, res) ==
    /\ suites' = res.r.suites
    /\ cases' = res.r.cases
    /\ suiteObj' = res.r.suiteObj
    /\ caseObj' = res.r.caseObj
    /\ hist' = Append(hist, Outcome(call, res))
    /\ last' = Outcome(call, res)
    /\ UNCHANGED <<discovering, conc>>

\* A thread of the host between two calls: the locals of add_class
\* (test_suite, and the size and position of the iterator of line 92) and
\* of add_method (test_case, test_suite).
IdleClassThread ==
    [pc |-> "idle", call |-> NoCall, test_suite |-> NoSuite, size |-> 0, pos |-> 0]
IdleMethodThread ==
    [pc |-> "idle", call |-> NoCall, test_case |-> 0, test_suite |-> NoSuite]

\* No call in progress.  mode tells how the host makes its calls: "serial",
\* one call at a time, or "parallel", the calls of one thread interleaved
\* with the calls of another.  reattach records that add_case raised for a
\* case the suite already held.
NoCallInProgress(mode) ==
    [mode |-> mode, cls |-> IdleClassThread, mth |-> IdleMethodThread,
     reattach |-> FALSE]

\* TestFactory.__init__
Init ==
    /\ suites = EmptyRegistry.suites
    /\ cases = EmptyRegistry.cases
    /\ suiteObj = EmptyRegistry.suiteObj
    /\ caseObj = EmptyRegistry.caseObj
    /\ hist = <<>>
    /\ last = [call |-> NoCall, ok |-> TRUE, err |-> "none", errKey |-> <<>>,
               message |-> ""]
    /\ discovering = TRUE
    /\ conc = NoCallInProgress("serial")

AddClass ==
    /\ Len(hist) < MaxCalls
    /\ \E c \in Classes, n \in Names :
          Install(ClassCall(c, n), add_class(Registry, c, n))

AddMethod ==
    /\ Len(hist) < MaxCalls
    /\ \E m \in Methods :
          Install(MethodCall(m), add_method(Registry, m))

\* The host has loaded its last test module.  TestFactory keeps no trace of
\* it: add_class and add_method read no phase.
EndDiscovery ==
    /\ discovering
    /\ discovering' = FALSE
    /\ UNCHANGED <<suites, cases, suiteObj, caseObj, hist, last, conc>>

Next == AddClass \/ AddMethod \/ EndDiscovery

Spec == Init /\ [][Next]_vars

(***************************************************************************)
(* The same host loading only methods of module-level classes: every       *)
(* __qualname__ is Class.method, with one dot.                             *)
(***************************************************************************)
FlatMethods ==
    {m \in Methods : Cardinality({i \in 1..Len(m.qualname) : m.qualname[i] = "."}) = 1}

AddMethodFlat ==
    /\ Len(hist) < MaxCalls
    /\ \E m \in FlatMethods :
          Install(MethodCall(m), add_method(Registry, m))

NextFlat == AddClass \/ AddMethodFlat \/ EndDiscovery

SpecFlat == Init /\ [][NextFlat]_vars

(***************************************************************************)
(* The host loading from two threads, one making the add_class calls and   *)
(* one the add_method calls.  A step of a thread is one access to the      *)
(* shared dictionaries: the check and insert of a registration, the making *)
(* of the iterator, one next() on it, the lookup of the suite, one attach. *)
(* In mode "serial" a call starts only when no other call is in progress.  *)
(***************************************************************************)

\* The calls started so far.
Started ==
    Len(hist) + (IF conc.cls.pc # "idle" THEN 1 ELSE 0)
              + (IF conc.mth.pc # "idle" THEN 1 ELSE 0)

\* The scheduler lets a thread run while the other is in the state other.
MayRun(other) == conc.mode = "parallel" \/ other.pc = "idle"

\* add_case found the very case it was given under its key.
SameCaseHeld(r, sid, cid) ==
    /\ r.caseObj[cid].key \in DOMAIN r.suiteObj[sid].cases
    /\ r.suiteObj[sid].cases[r.caseObj[cid].key] = cid

\* A step inside a call: the registry and the locals it leaves.
Step(r, c) ==
    /\ suites' = r.suites
    /\ cases' = r.cases
    /\ suiteObj' = r.suiteObj
    /\ caseObj' = r.caseObj
    /\ conc' = c
    /\ UNCHANGED <<hist, last, discovering>>

\* The last step of a call: it returns or raises.
Finish(call, res, c) ==
    /\ suites' = res.r.suites
    /\ cases' = res.r.cases
    /\ suiteObj' = res.r.suiteObj
    /\ caseObj' = res.r.caseObj
    /\ hist' = Append(hist, Outcome(call, res))
    /\ last' = Outcome(call, res)
    /\ conc' = c
    /\ UNCHANGED discovering

InitConc ==
    /\ suites = EmptyRegistry.suites
    /\ cases = EmptyRegistry.cases
    /\ suiteObj = EmptyRegistry.suiteObj
    /\ caseObj = EmptyRegistry.caseObj
    /\ hist = <<>>
    /\ last = [call |-> NoCall, ok |-> TRUE, err |-> "none", errKey |-> <<>>,
               message |-> ""]
    /\ discovering = TRUE
    /\ \E mode \in {"serial", "parallel"} : conc = NoCallInProgress(mode)

\* add_class, lines 79-89
ClassRegister ==
    /\ conc.cls.pc = "idle"
    /\ MayRun(conc.mth)
    /\ Started < MaxConcCalls
    /\ \E c \in Classes, n \in Names :
          LET res == register_suite(Registry, c, n)
          IN  IF res.ok
              THEN Step(res.r,
                        [conc EXCEPT !.cls =
                            [pc |-> "iter", call |-> ClassCall(c, n),
                             test_suite |-> res.r.suites[class_key(c, n)],
                             size |-> 0, pos |-> 0]])
              ELSE Finish(ClassCall(c, n), res, conc)

\* add_class, line 92: self.cases.values() and its iterator
ClassIter ==
    /\ conc.cls.pc = "iter"
    /\ MayRun(conc.mth)
    /\ Step(Registry, [conc EXCEPT !.cls.pc = "next",
                                   !.cls.size = Cardinality(DOMAIN cases),
                                   !.cls.pos = 1])

\* add_class, lines 92-93: the next case and the test of its full_name
ClassNext ==
    /\ conc.cls.pc = "next"
    /\ MayRun(conc.mth)
    /\ LET got == next_case(Registry, conc.cls.size, conc.cls.pos)
           class_prefix ==
               class_key(conc.cls.call.test_class, conc.cls.call.name) \o <<".">>
       IN  CASE got = "changed" ->
                  Finish(conc.cls.call, Raised(Registry, "dict_changed_size", <<>>),
                         [conc EXCEPT !.cls = IdleClassThread])
             [] got = "stop" ->
                  Finish(conc.cls.call, Returned(Registry),
                         [conc EXCEPT !.cls = IdleClassThread])
             [] OTHER ->
                  IF StartsWith(caseObj[conc.cls.pos].full_name, class_prefix)
                  THEN Step(Registry, [conc EXCEPT !.cls.pc = "attach"])
                  ELSE Step(Registry, [conc EXCEPT !.cls.pos = @ + 1])

\* add_class, line 94
ClassAttach ==
    /\ conc.cls.pc = "attach"
    /\ MayRun(conc.mth)
    /\ LET res == add_case_to_suite(Registry, conc.cls.test_suite, conc.cls.pos)
       IN  IF res.ok
           THEN Step(res.r, [conc EXCEPT !.cls.pc = "next", !.cls.pos = @ + 1])
           ELSE Finish(conc.cls.call, res,
                       [conc EXCEPT
                          !.cls = IdleClassThread,
                          !.reattach = @ \/ SameCaseHeld(Registry, conc.cls.test_suite,
                                                         conc.cls.pos)])

\* add_method, lines 103-109
MethodRegister ==
    /\ conc.mth.pc = "idle"
    /\ MayRun(conc.cls)
    /\ Started < MaxConcCalls
    /\ \E m \in Methods :
          LET res == register_case(Registry, m)
          IN  IF res.ok
              THEN Step(res.r,
                        [conc EXCEPT !.mth =
                            [pc |-> "lookup", call |-> MethodCall(m),
                             test_case |-> res.r.cases[Lower(m.qualname)],
                             test_suite |-> NoSuite]])
              ELSE Finish(MethodCall(m), res, conc)

\* add_method, lines 115-117
MethodLookup ==
    /\ conc.mth.pc = "lookup"
    /\ MayRun(conc.cls)
    /\ LET test_suite ==
               lookup_suite(Registry, caseObj[conc.mth.test_case].full_name)
       IN  IF test_suite # NoSuite
           THEN Step(Registry, [conc EXCEPT !.mth.pc = "attach",
                                            !.mth.test_suite = test_suite])
           ELSE Finish(conc.mth.call, Returned(Registry),
                       [conc EXCEPT !.mth = IdleMethodThread])

\* add_method, line 119
MethodAttach ==
    /\ conc.mth.pc = "attach"
    /\ MayRun(conc.cls)
    /\ LET res == add_case_to_suite(Registry, conc.mth.test_suite, conc.mth.test_case)
       IN  Finish(conc.mth.call, res,
                  [conc EXCEPT
                     !.mth = IdleMethodThread,
                     !.reattach = @ \/ ( /\ ~res.ok
                                         /\ SameCaseHeld(Registry, conc.mth.test_suite,
                                                         conc.mth.test_case) )])

NextConc ==
    \/ ClassRegister \/ ClassIter \/ ClassNext \/ ClassAttach
    \/ MethodRegister \/ MethodLookup \/ MethodAttach

SpecConc == InitConc /\ [][NextConc]_vars

(***************************************************************************)
(* Vocabulary of the properties                                            *)
(***************************************************************************)

\* The registry a sequence of calls leaves, failed calls included.
RECURSIVE Run(_, _)
Run(r, calls) ==
    IF calls = <<>> THEN r ELSE Run(Apply(r, Head(calls)).r, Tail(calls))

\* A step that is a registration call.
CallStep == hist' # hist

\* The calls made so far.
Made == [i \in 1..Len(hist) |-> hist[i].call]

\* Every order of a sequence of calls.
Orders(calls) ==
    { [i \in 1..Len(calls) |-> calls[p[i]]] : p \in Permutations(1..Len(calls)) }

\* The suite key a call registers, the qualified name and the case key a
\* method call registers.
CallSuiteKey(call) == class_key(call.test_class, call.name)
CallFullName(call) == Lower(call.test_method.qualname)
CallCaseKey(call) == Lower(call.test_method.name)

\* No call twice, no two classes under one suite key, no two methods under
\* one qualified name, no two methods under one case key of one suite.
NoDuplicates(calls) ==
    \A i, j \in 1..Len(calls) :
       i # j =>
         /\ calls[i] # calls[j]
         /\ (calls[i].op = "add_class" /\ calls[j].op = "add_class")
               => CallSuiteKey(calls[i]) # CallSuiteKey(calls[j])
         /\ (calls[i].op = "add_method" /\ calls[j].op = "add_method")
               => /\ CallFullName(calls[i]) # CallFullName(calls[j])
                  /\ ~ /\ FirstSegment(CallFullName(calls[i]))
                             = FirstSegment(CallFullName(calls[j]))
                        /\ CallCaseKey(calls[i]) = CallCaseKey(calls[j])

\* What a registry holds, whatever the ids of its records: the suite keys
\* with the class each was registered for, the qualified names with their
\* methods, each suite's cases by key, and each case's suite.
View(r) ==
    [ suites |-> [k \in DOMAIN r.suites |-> r.suiteObj[r.suites[k]].test_class],
      cases  |-> [f \in DOMAIN r.cases |-> r.caseObj[r.cases[f]].method],
      suiteCases |->
          [k \in DOMAIN r.suites |->
              [ck \in DOMAIN r.suiteObj[r.suites[k]].cases |->
                  r.caseObj[r.suiteObj[r.suites[k]].cases[ck]].full_name]],
      caseSuite |->
          [f \in DOMAIN r.cases |->
              {k \in DOMAIN r.suites : r.suites[k] = r.caseObj[r.cases[f]].suite}] ]

SuiteIds == DOMAIN suiteObj
CaseIds == DOMAIN caseObj

\* In registry r, case cid is in the cases of suite sid, under its key, and
\* points back at it.
AttachedIn(r, cid, sid) ==
    /\ r.caseObj[cid].key \in DOMAIN r.suiteObj[sid].cases
    /\ r.suiteObj[sid].cases[r.caseObj[cid].key] = cid
    /\ r.caseObj[cid].suite = sid

Attached(cid, sid) == AttachedIn(Registry, cid, sid)

\* The cases held by suite sid in registry r.
HeldIn(r, sid) == {r.suiteObj[sid].cases[k] : k \in DOMAIN r.suiteObj[sid].cases}

Held(sid) == HeldIn(Registry, sid)

\* The registered cases whose qualified name begins with key and a dot.
Prefixed(key) ==
    {cid \in CaseIds : StartsWith(caseObj[cid].full_name, key \o <<".">>)}

(***************************************************************************)
(* C1: confluence.  Whenever the calls made so far hold no duplicate,      *)
(* making them in any other order from the empty registry leaves the same  *)
(* suite keys, the same qualified names, the same cases under the same     *)
(* keys in every suite and the same suite on every case.                   *)
(***************************************************************************)
Confluence ==
    NoDuplicates(Made) =>
        \A o \in Orders(Made) : View(Run(EmptyRegistry, o)) = View(Registry)

(***************************************************************************)
(* C2: once add_class for a class and add_method for a method of that      *)
(* class have both returned, in either order, the method's case is in the  *)
(* cases of the suite created for the class and points back at it, also    *)
(* when the class was given an explicit name.                              *)
(***************************************************************************)
MethodsJoinOwningSuite ==
    \A i, j \in 1..Len(hist) :
       ( /\ hist[i].call.op = "add_class" /\ hist[i].ok
         /\ hist[j].call.op = "add_method" /\ hist[j].ok
         /\ hist[j].call.test_method.owner = hist[i].call.test_class )
       => Attached(cases[CallFullName(hist[j].call)],
                   suites[CallSuiteKey(hist[i].call)])

(***************************************************************************)
(* C3 (I4): once some add_class has returned, every registered case whose  *)
(* qualified name begins with the key field of a suite record, and a dot,  *)
(* is in that suite's cases and points back at it.                         *)
(***************************************************************************)
PrefixOfRecordKeyAttached ==
    (\E i \in 1..Len(hist) : hist[i].call.op = "add_class" /\ hist[i].ok)
    => \A sid \in SuiteIds :
          \A cid \in Prefixed(suiteObj[sid].key) : Attached(cid, sid)

(***************************************************************************)
(* C4: case before class.  When add_class returns for key k, the new       *)
(* suite's cases are exactly the cases that were in Registry.cases before  *)
(* the call with a qualified name beginning with "k.", each under its case *)
(* key and each pointing back at the new suite.                            *)
(***************************************************************************)
ClassCollectsEarlierCases ==
    [][ (CallStep /\ last'.call.op = "add_class" /\ last'.ok)
        => LET k   == CallSuiteKey(last'.call)
               sid == suites'[k]
               old == {cid \in CaseIds :
                         /\ caseObj[cid].full_name \in DOMAIN cases
                         /\ cases[caseObj[cid].full_name] = cid
                         /\ StartsWith(caseObj[cid].full_name, k \o <<".">>)}
           IN  /\ k \notin DOMAIN suites
               /\ HeldIn(Registry', sid) = old
               /\ \A cid \in old : AttachedIn(Registry', cid, sid) ]_vars

\* add_class has just returned with two earlier cases in its suite.
ClassCollectsWitness ==
    /\ last.call.op = "add_class" /\ last.ok
    /\ Cardinality(Held(suites[CallSuiteKey(last.call)])) >= 2

(***************************************************************************)
(* C5: case after class.  When add_method returns and a suite was already  *)
(* registered under the first segment of the qualified name, the new case  *)
(* is in that suite's cases, points back at it, and is in no other suite's *)
(* cases.                                                                  *)
(***************************************************************************)
MethodJoinsExistingSuite ==
    [][ ( /\ CallStep
          /\ last'.call.op = "add_method" /\ last'.ok
          /\ FirstSegment(CallFullName(last'.call)) \in DOMAIN suites )
        => LET sid == suites[FirstSegment(CallFullName(last'.call))]
               cid == cases'[CallFullName(last'.call)]
           IN  /\ cid \notin CaseIds
               /\ AttachedIn(Registry', cid, sid)
               /\ \A other \in SuiteIds' :
                     other # sid => cid \notin HeldIn(Registry', other) ]_vars

\* add_method has just attached its case while a second suite exists.
MethodJoinsWitness ==
    /\ last.call.op = "add_method" /\ last.ok
    /\ Len(suiteObj) >= 2
    /\ caseObj[cases[CallFullName(last.call)]].suite # NoSuite
    /\ hist[Len(hist) - 1].call.op = "add_class"

(***************************************************************************)
(* C6: add_class whose key is already in Registry.suites raises for the    *)
(* suite key and leaves Registry.suites, the suite registered first and    *)
(* every other record as they were.                                        *)
(***************************************************************************)
DuplicateSuiteRejected ==
    [][ ( /\ CallStep
          /\ last'.call.op = "add_class"
          /\ CallSuiteKey(last'.call) \in DOMAIN suites )
        => /\ ~last'.ok /\ last'.err = "suite_key"
           /\ suites' = suites
           /\ suiteObj' = suiteObj
           /\ cases' = cases /\ caseObj' = caseObj ]_vars

\* A class was rejected for the key of a suite that another call, one that
\* differs in class or in name, registered and that holds a case.
DuplicateSuiteWitness ==
    /\ last.call.op = "add_class" /\ ~last.ok /\ last.err = "suite_key"
    /\ Held(suites[last.errKey]) # {}
    /\ suiteObj[suites[last.errKey]].test_class # last.call.test_class
    /\ \A i \in 1..Len(hist) - 1 : hist[i].call # last.call

(***************************************************************************)
(* C7: add_method whose lowercased qualified name is already a key of      *)
(* Registry.cases raises; the first case stays under that name, unchanged, *)
(* in the suite it was in.                                                 *)
(***************************************************************************)
DuplicateCaseRejected ==
    [][ ( /\ CallStep
          /\ last'.call.op = "add_method"
          /\ CallFullName(last'.call) \in DOMAIN cases )
        => /\ ~last'.ok /\ last'.err = "full_name"
           /\ cases' = cases
           /\ caseObj' = caseObj
           /\ suites' = suites /\ suiteObj' = suiteObj ]_vars

\* A method was rejected for the qualified name of a different method (the
\* names differ in case only) whose case is attached to a suite.
DuplicateCaseWitness ==
    /\ last.call.op = "add_method" /\ ~last.ok /\ last.err = "full_name"
    /\ caseObj[cases[last.errKey]].method # last.call.test_method
    /\ caseObj[cases[last.errKey]].suite # NoSuite

(***************************************************************************)
(* C8: no partial success.  A call that raises leaves Registry.suites,     *)
(* Registry.cases, every suite's cases and every case's suite as they      *)
(* were before it.                                                         *)
(***************************************************************************)
NoPartialSuccess ==
    [][ (CallStep /\ ~last'.ok)
        => /\ suites' = suites /\ suiteObj' = suiteObj
           /\ cases' = cases /\ caseObj' = caseObj ]_vars

CaseKeyClash(key) ==
    \E c1, c2 \in Prefixed(key) : c1 # c2 /\ caseObj[c1].key = caseObj[c2].key

SuiteCasesAreRegistryCases ==
    \A sid \in SuiteIds : \A cid \in Held(sid) :
       /\ cid \in CaseIds
       /\ caseObj[cid].full_name \in DOMAIN cases
       /\ cases[caseObj[cid].full_name] = cid

\* A suite holds two cases: one that add_class found registered, and one
\* that add_method has just attached.
SuiteCasesWitness ==
    /\ Len(hist) >= 3
    /\ hist[Len(hist) - 2].call.op = "add_method"
    /\ hist[Len(hist) - 1].call.op = "add_class"
    /\ last.call.op = "add_method" /\ last.ok
    /\ \E sid \in SuiteIds :
          /\ Cardinality(Held(sid)) >= 2
          /\ cases[CallFullName(last.call)] \in Held(sid)

(***************************************************************************)
(* C11 (I2): every entry of Registry.suites is stored under the key field  *)
(* of the suite record it holds, and no two suite records have the same    *)
(* key field, explicit names included.                                     *)
(***************************************************************************)
SuitesStoredUnderRecordKey ==
    /\ \A k \in DOMAIN suites : suiteObj[suites[k]].key = k
    /\ \A s1, s2 \in SuiteIds : s1 # s2 => suiteObj[s1].key # suiteObj[s2].key

(***************************************************************************)
(* C12: when add_class returns, the record it created carries the explicit *)
(* name, if a non-empty one was given, and that name lowercased as its     *)
(* key; with no name it carries the class's identifier and its lowercase.  *)
(***************************************************************************)
RecordCarriesGivenName ==
    (last.call.op = "add_class" /\ last.ok)
    => LET s == suiteObj[Len(suiteObj)]
           n == last.call.name
       IN  /\ (n # None /\ n # <<>>) => (s.name = n /\ s.key = Lower(n))
           /\ n = None => /\ s.name = last.call.test_class.name
                          /\ s.key = Lower(last.call.test_class.name)

(***************************************************************************)
(* C13: add_class with the empty string as name does what add_class with   *)
(* no name does: the suite goes under the lowercased class identifier and  *)
(* nothing is ever stored under the empty key.                             *)
(***************************************************************************)
EmptyNameIsNoName ==
    [][ (CallStep /\ last'.call.op = "add_class" /\ last'.call.name = <<>>)
        => /\ Registry' = add_class(Registry, last'.call.test_class, None).r
           /\ <<>> \notin DOMAIN suites' ]_vars

(***************************************************************************)
(* C14: every case record has the lowercased method identifier as key, is  *)
(* stored in Registry.cases under its qualified name, the lowercased       *)
(* qualified identifier of the method, and that qualified name is the key  *)
(* of its suite, a dot, and its own key.                                   *)
(***************************************************************************)
QualifiedNameIsSuiteKeyDotKey ==
    \A cid \in CaseIds :
       LET c == caseObj[cid]
       IN  /\ c.key = Lower(c.method.name)
           /\ c.full_name = Lower(c.method.qualname)
           /\ c.full_name \in DOMAIN cases /\ cases[c.full_name] = cid
           /\ c.suite # NoSuite
                => c.full_name = suiteObj[c.suite].key \o <<".">> \o c.key

\* In registry r, attaching any case to any suite that has its key raises
\* and changes nothing.
AttachRejectsTakenKey(r) ==
    \A sid \in DOMAIN r.suiteObj, cid \in DOMAIN r.caseObj :
       r.caseObj[cid].key \in DOMAIN r.suiteObj[sid].cases
       => LET a == add_case_to_suite(r, sid, cid)
          IN  ~a.ok /\ a.err = "case_key" /\ a.r = r

\* In registry r, every suite holds under each key a case with that key.
KeysMatchCases(r) ==
    \A sid \in DOMAIN r.suiteObj : \A k \in DOMAIN r.suiteObj[sid].cases :
       /\ r.suiteObj[sid].cases[k] \in DOMAIN r.caseObj
       /\ r.caseObj[r.suiteObj[sid].cases[k]].key = k

(***************************************************************************)
(* C15 (I1): attaching a case to a suite that already holds its case key   *)
(* raises and leaves the suite's cases and the case's suite as they were;  *)
(* every suite holds under each key a case with that key, and no step      *)
(* replaces or removes an entry of a suite's cases.                        *)
(***************************************************************************)
CaseKeyUniqueInSuite ==
    [][ /\ AttachRejectsTakenKey(Registry')
        /\ KeysMatchCases(Registry')
        /\ \A sid \in SuiteIds : \A k \in DOMAIN suiteObj[sid].cases :
              /\ k \in DOMAIN suiteObj'[sid].cases
              /\ suiteObj'[sid].cases[k] = suiteObj[sid].cases[k] ]_vars

\* add_method has just been refused by a suite that holds another case
\* under the key; the new case has no suite.
CaseKeyUniqueWitness ==
    /\ last.call.op = "add_method" /\ ~last.ok /\ last.err = "case_key"
    /\ LET cid == cases[CallFullName(last.call)]
           sid == suites[FirstSegment(CallFullName(last.call))]
       IN  /\ caseObj[cid].suite = NoSuite
           /\ suiteObj[sid].cases[last.errKey] # cid
           /\ cid \notin Held(sid)

(***************************************************************************)
(* C16 (I5): no call, returning or raising, removes or replaces an entry   *)
(* of Registry.suites, Registry.cases or a suite's cases, and no field of  *)
(* an existing record changes, except that the suite of a case may go      *)
(* from unset to set.                                                      *)
(***************************************************************************)
AppendOnly ==
    [][ /\ \A k \in DOMAIN suites : k \in DOMAIN suites' /\ suites'[k] = suites[k]
        /\ \A f \in DOMAIN cases : f \in DOMAIN cases' /\ cases'[f] = cases[f]
        /\ \A sid \in SuiteIds :
              /\ sid \in SuiteIds'
              /\ [suiteObj'[sid] EXCEPT !.cases = EmptyDict]
                    = [suiteObj[sid] EXCEPT !.cases = EmptyDict]
              /\ \A k \in DOMAIN suiteObj[sid].cases :
                    /\ k \in DOMAIN suiteObj'[sid].cases
                    /\ suiteObj'[sid].cases[k] = suiteObj[sid].cases[k]
        /\ \A cid \in CaseIds :
              /\ cid \in CaseIds'
              /\ [caseObj'[cid] EXCEPT !.suite = NoSuite]
                    = [caseObj[cid] EXCEPT !.suite = NoSuite]
              /\ \/ caseObj'[cid].suite = caseObj[cid].suite
                 \/ caseObj[cid].suite = NoSuite ]_vars

(***************************************************************************)
(* C17: every method whose add_method returned is in Registry.cases, and   *)
(* while no suite is registered under the first segment of its qualified   *)
(* name its case is in no suite's cases and has no suite.                  *)
(***************************************************************************)
UnattachedUntilOwnerRegistered ==
    /\ \A i \in 1..Len(hist) :
          (hist[i].call.op = "add_method" /\ hist[i].ok)
          => CallFullName(hist[i].call) \in DOMAIN cases
    /\ \A cid \in CaseIds :
          FirstSegment(caseObj[cid].full_name) \notin DOMAIN suites
          => /\ caseObj[cid].suite = NoSuite
             /\ \A sid \in SuiteIds : cid \notin Held(sid)

(***************************************************************************)
(* C18: no call attaches a case that is already attached: the suite of a   *)
(* case, once set, never changes, and a case is in the cases of at most    *)
(* one suite.                                                              *)
(***************************************************************************)
SuiteSetOnce ==
    [][ /\ \A cid \in CaseIds :
              caseObj[cid].suite # NoSuite
              => caseObj'[cid].suite = caseObj[cid].suite
        /\ \A cid \in CaseIds', s1, s2 \in SuiteIds' :
              (cid \in HeldIn(Registry', s1) /\ cid \in HeldIn(Registry', s2))
              => s1 = s2 ]_vars

(***************************************************************************)
(* C19: once the discovery phase has ended, no add_class or add_method     *)
(* call changes Registry.suites, Registry.cases or a suite's cases.        *)
(***************************************************************************)
ReadOnlyAfterDiscovery ==
    [][ ~discovering
        => /\ suites' = suites /\ suiteObj' = suiteObj
           /\ cases' = cases /\ caseObj' = caseObj ]_vars

\* What the text of a message calls the thing that collided.
Subject(message) ==
    CASE message = "TestFactory duplicate test class name: {key}" -> "class"
      [] message = "duplicate test class name: {full_name}" -> "class"
      [] message = "TestSuiteData has test method {test_case.key} already" -> "method"
      [] OTHER -> "nothing"

(***************************************************************************)
(* C20: every call that raised names its kind and the key that collided:   *)
(* the suite key for a suite collision, reported as a class; the qualified *)
(* name for a collision in Registry.cases and the case key for one inside  *)
(* a suite, both reported as a method, never as a class.                   *)
(***************************************************************************)
FailureNamesKindAndKey ==
    \A i \in 1..Len(hist) :
       ~hist[i].ok
       => /\ hist[i].err = "suite_key"
               => /\ Subject(hist[i].message) = "class"
                  /\ hist[i].errKey = CallSuiteKey(hist[i].call)
          /\ hist[i].err = "full_name"
               => /\ Subject(hist[i].message) = "method"
                  /\ hist[i].errKey = CallFullName(hist[i].call)
          /\ hist[i].err = "case_key"
               => /\ Subject(hist[i].message) = "method"
                  /\ \E cid \in CaseIds : caseObj[cid].key = hist[i].errKey

(***************************************************************************)
(* C21: back-reference consistency.  Between calls, every entry k of a     *)
(* suite's cases is a case whose key is k and whose suite is that suite;   *)
(* every case whose suite is set is in the cases of that suite, and that   *)
(* suite is an entry of Registry.suites.                                   *)
(***************************************************************************)
BackReferenceConsistency ==
    /\ \A sid \in SuiteIds :
          \A k \in DOMAIN suiteObj[sid].cases :
             /\ caseObj[suiteObj[sid].cases[k]].key = k
             /\ caseObj[suiteObj[sid].cases[k]].suite = sid
    /\ \A cid \in CaseIds :
          caseObj[cid].suite # NoSuite
          => /\ cid \in Held(caseObj[cid].suite)
             /\ \E key \in DOMAIN suites : suites[key] = caseObj[cid].suite

(***************************************************************************)
(* C22: a suite only ever holds methods of its own class: the class that   *)
(* defines the method of every case in a suite's cases is the class the    *)
(* suite was registered for, whatever name the class was registered under. *)
(***************************************************************************)
SuiteHoldsOwnMethods ==
    \A sid \in SuiteIds :
       \A cid \in Held(sid) :
          caseObj[cid].method.owner = suiteObj[sid].test_class

(***************************************************************************)
(* C23: when every qualified name is Class.method with one dot (each case  *)
(* key is the lowercased method identifier by construction), no call ends  *)
(* in the in-suite key check of add_case: a failed add_method failed the   *)
(* qualified-name check, a failed add_class the suite-key check, and no    *)
(* call the host could make next would reach the in-suite check either.    *)
(***************************************************************************)
AttachNeverFails ==
    /\ \A i \in 1..Len(hist) :
          /\ hist[i].err # "case_key"
          /\ (hist[i].call.op = "add_method" /\ ~hist[i].ok)
                => hist[i].err = "full_name"
          /\ (hist[i].call.op = "add_class" /\ ~hist[i].ok)
                => hist[i].err = "suite_key"
    /\ \A cid \in CaseIds : caseObj[cid].key = Lower(caseObj[cid].method.name)
    /\ \A c \in Classes, n \in Names : add_class(Registry, c, n).err # "case_key"
    /\ \A m \in FlatMethods : add_method(Registry, m).err # "case_key"

\* A method registered a second time was rejected by the qualified-name
\* check, after an add_class returned and while some suite holds a case.
AttachNeverFailsWitness ==
    /\ ~last.ok /\ last.err = "full_name" /\ last.call.op = "add_method"
    /\ \E sid \in SuiteIds : Held(sid) # {}
    /\ \E i \in 1..Len(hist) : hist[i].call.op = "add_class" /\ hist[i].ok

\* No call is in progress.
Quiet == conc.cls.pc = "idle" /\ conc.mth.pc = "idle"

(***************************************************************************)
(* C24: no lost attachment without locking.  With the steps of the calls   *)
(* of two threads interleaved in any order, once add_class for a class and *)
(* add_method for a method of that class have both ended, each having      *)
(* passed its duplicate check, the method's case is in the cases of the    *)
(* class's suite.                                                          *)
(***************************************************************************)
NoLostAttachment ==
    \A i, j \in 1..Len(hist) :
       ( /\ hist[i].call.op = "add_class" /\ hist[i].call.name = None
         /\ hist[i].err # "suite_key"
         /\ hist[j].call.op = "add_method" /\ hist[j].err # "full_name"
         /\ hist[j].call.test_method.owner = hist[i].call.test_class )
       => cases[CallFullName(hist[j].call)]
             \in Held(suites[CallSuiteKey(hist[i].call)])

\* The part of C24 that holds: when the two calls are the only ones made and
\* the first segment of the method's qualified name is the key of the class,
\* every interleaving of their steps leaves the case attached.
PairAloneNotLost ==
    (Quiet /\ Len(hist) = 2)
    => \A i, j \in 1..2 :
          ( /\ hist[i].call.op = "add_class"
            /\ hist[j].call.op = "add_method"
            /\ FirstSegment(CallFullName(hist[j].call)) = CallSuiteKey(hist[i].call) )
          => Attached(cases[CallFullName(hist[j].call)],
                      suites[CallSuiteKey(hist[i].call)])

(***************************************************************************)
(* C25: serialization is necessary.  When the host makes one call at a     *)
(* time, no call ever tries to attach a case to a suite that already holds *)
(* that case, so no duplicate-case error is raised for a case registered   *)
(* once.  (With the steps interleaved such an error is reachable: the      *)
(* witness.)                                                               *)
(***************************************************************************)
SerialNeverReattaches == conc.mode = "serial" => ~conc.reattach

\* add_class for a class and add_method for one of its methods, the only two
\* calls made and no duplicate among them, ran interleaved; both tried to
\* attach the one case and the second to try raised the duplicate-case error.
InterleavedReattachWitness ==
    /\ conc.mode = "parallel" /\ conc.reattach /\ Quiet
    /\ Len(hist) = 2 /\ NoDuplicates(Made)
    /\ \E i, j \in 1..2 :
          /\ hist[i].call.op = "add_class" /\ hist[i].call.name = None
          /\ hist[j].call.op = "add_method"
          /\ hist[j].call.test_method.owner = hist[i].call.test_class
          /\ (~hist[i].ok \/ ~hist[j].ok)
          /\ \A k \in 1..2 : ~hist[k].ok => hist[k].err = "case_key"
          /\ Attached(cases[CallFullName(hist[j].call)],
                      suites[CallSuiteKey(hist[i].call)])

====
